---- MODULE Spec2Model ----
(***************************************************************************)
(* Model of EmailValidator (src/email-tester.py): the staged pipeline      *)
(* validate_email = validate_syntax -> validate_domain ->                  *)
(* validate_mx_records -> [validate_smtp], with the DNS resolver and the   *)
(* SMTP client as environment-driven collaborators.                        *)
(*                                                                         *)
(* A string is a sequence of one-character strings.                        *)
(***************************************************************************)
EXTENDS Integers, Sequences, FiniteSets, TLC

VARIABLES email, check_smtp, pc, results, dnsLog, smtpLog, conn, probeMx

vars == <<email, check_smtp, pc, results, dnsLog, smtpLog, conn, probeMx>>

(* ------------------------------ bounds --------------------------------- *)
\* longest run of blanks put before / after an address
MaxPad == 1
\* most MX hosts a lookup returns
MaxMx == 2

(* ------------------------- program constants --------------------------- *)
MaxLocalLen == 64
MaxDomainLen == 255
MinTldLen == 2
MxShown == 3
RcptOk == 250
RcptForward == 251

(* --------------------------- string helpers ---------------------------- *)
Rep(c, n) == [i \in 1..n |-> c]

MaxOf(S) == CHOOSE x \in S : \A y \in S : x >= y

\* a sample of [a-zA-Z], of [0-9], and the character classes of email_regex
Letters == {"a", "b", "c", "o", "u", "x"}
Digits == {"1"}
LocalChars == Letters \cup Digits \cup {".", "_", "%", "+", "-"}
DomainChars == Letters \cup Digits \cup {".", "-"}
Whitespace == {" ", "\t", "\n"}

\* str.strip(): drop leading and trailing whitespace
strip(s) ==
  IF \A i \in 1..Len(s) : s[i] \in Whitespace THEN <<>>
  ELSE LET first == CHOOSE i \in 1..Len(s) :
                      s[i] \notin Whitespace /\ \A j \in 1..(i - 1) : s[j] \in Whitespace
           last == CHOOSE i \in 1..Len(s) :
                     s[i] \notin Whitespace /\ \A j \in (i + 1)..Len(s) : s[j] \in Whitespace
       IN SubSeq(s, first, last)

\* ^[a-zA-Z0-9._%+-]+@[a-zA-Z0-9.-]+\.[a-zA-Z]{2,} up to the end of s
FullMatch(s) ==
  \E i \in {k \in 2..Len(s) : s[k] = "@"} :
    /\ \A k \in 1..(i - 1) : s[k] \in LocalChars
    /\ \E j \in {k \in (i + 2)..(Len(s) - MinTldLen) : s[k] = "."} :
         /\ \A k \in (i + 1)..(j - 1) : s[k] \in DomainChars
         /\ \A k \in (j + 1)..Len(s) : s[k] \in Letters

\* email_regex.match(s): "$" also matches just before one final newline
email_regex_match(s) ==
  \/ FullMatch(s)
  \/ /\ Len(s) > 0
     /\ s[Len(s)] = "\n"
     /\ FullMatch(SubSeq(s, 1, Len(s) - 1))

\* s.rsplit('@', 1): split at the last '@'; a single piece when there is none
rsplit_at(s) ==
  LET ats == {k \in 1..Len(s) : s[k] = "@"}
  IN IF ats = {} THEN <<s>>
     ELSE <<SubSeq(s, 1, MaxOf(ats) - 1), SubSeq(s, MaxOf(ats) + 1, Len(s))>>

\* '..' in s
HasDoubleDot(s) == \E k \in 1..(Len(s) - 1) : s[k] = "." /\ s[k + 1] = "."

startswith_dot(s) == Len(s) > 0 /\ s[1] = "."
endswith_dot(s) == Len(s) > 0 /\ s[Len(s)] = "."

(* ------------------------------ messages ------------------------------- *)
Msg(text, code, detail) == [text |-> text, code |-> code, detail |-> detail]
Plain(text) == Msg(text, 0, <<>>)
Result(valid, message) == [valid |-> valid, message |-> message]

(* ------------------------------ inputs --------------------------------- *)
\* an argument of validate_email: a str, None, or a non-string such as 42
Str(s) == [kind |-> "str", chars |-> s]
None == [kind |-> "none", chars |-> <<>>]
NonStr == [kind |-> "int", chars |-> <<>>]

\* Python truthiness of the argument
Truthy(e) == IF e.kind = "str" THEN e.chars # <<>> ELSE e.kind = "int"

LongLocal == Rep("a", MaxLocalLen)
LongDomain == Rep("b", MaxDomainLen - 3) \o <<".", "c", "o">>

Bodies ==
  { <<>>,
    <<"u">>,
    <<"u", "x", ".", "c", "o">>,
    <<"u", "@">>,
    <<"@", "x", ".", "c", "o">>,
    <<"u", "@", "x">>,
    <<"u", "@", "x", ".", "c">>,
    <<"u", "@", "x", ".", "c", "1">>,
    <<"u", "@", "x", ".", "c", "o">>,
    <<"u", "+", "1", "@", "x", "-", "1", ".", "b", ".", "c", "o">>,
    <<"u", ".", ".", "x", "@", "x", ".", "c", "o">>,
    <<"u", "@", "x", ".", ".", "c", "o">>,
    <<".", "u", "@", "x", ".", "c", "o">>,
    <<"u", ".", "@", "x", ".", "c", "o">>,
    <<"u", "@", "x", "@", "x", ".", "c", "o">>,
    <<"u", " ", "x", "@", "x", ".", "c", "o">>,
    LongLocal \o <<"@">> \o LongDomain,
    (<<"a">> \o LongLocal) \o <<"@", "x", ".", "c", "o">>,
    <<"u", "@", "b">> \o LongDomain }

Pads == {Rep(" ", n) : n \in 0..MaxPad} \cup {<<"\n">>}

Inputs ==
  {Str(l \o b \o t) : l \in Pads, b \in Bodies, t \in Pads} \cup {None, NonStr}

(* --------------------------- validate_syntax --------------------------- *)
\* SyntaxOfStripped with the consecutive-dots test left out
SyntaxOfStripped_NoDotsTest(s) ==
  LET parts == rsplit_at(s)
      local_part == parts[1]
      domain == parts[2]
  IN IF Len(local_part) > MaxLocalLen
       THEN Result(FALSE, Plain("Local part (before @) is too long (max 64 chars)"))
     ELSE IF Len(domain) > MaxDomainLen
       THEN Result(FALSE, Plain("Domain part is too long (max 255 chars)"))
     ELSE IF startswith_dot(local_part) \/ endswith_dot(local_part)
       THEN Result(FALSE, Plain("Local part cannot start or end with a dot"))
     ELSE Result(TRUE, Plain("Syntax is valid"))

\* the checks made on the stripped address once it matched the regex
SyntaxOfStripped(s) ==
  LET parts == rsplit_at(s)
      local_part == parts[1]
      domain == parts[2]
  IN IF Len(local_part) > MaxLocalLen
       THEN Result(FALSE, Plain("Local part (before @) is too long (max 64 chars)"))
     ELSE IF Len(domain) > MaxDomainLen
       THEN Result(FALSE, Plain("Domain part is too long (max 255 chars)"))
     ELSE IF HasDoubleDot(s)
       THEN Result(FALSE, Plain("Email contains consecutive dots"))
     ELSE IF startswith_dot(local_part) \/ endswith_dot(local_part)
       THEN Result(FALSE, Plain("Local part cannot start or end with a dot"))
     ELSE Result(TRUE, Plain("Syntax is valid"))

validate_syntax(e) ==
  IF ~Truthy(e) \/ e.kind # "str"
    THEN Result(FALSE, Plain("Email must be a non-empty string"))
  ELSE IF ~email_regex_match(strip(e.chars))
    THEN Result(FALSE, Plain("Invalid email format"))
  ELSE SyntaxOfStripped(strip(e.chars))

(* ----------------------- the report being built ------------------------ *)
Check(name, r) == [name |-> name, valid |-> r.valid, message |-> r.message]

\* Record that never clears is_valid
Record_KeepsIsValid(res, name, r) ==
  [res EXCEPT !.checks = Append(@, Check(name, r))]

\* results['checks'][name] = {...}; if not is_valid: results['is_valid'] = False
Record(res, name, r) ==
  [res EXCEPT !.checks = Append(@, Check(name, r)),
              !.is_valid = IF r.valid THEN @ ELSE FALSE]

\* AfterDomain without the early return
AfterDomain_NoReturn(valid) == "mx"

\* AfterMx that runs the SMTP stage whether or not it was asked for
AfterMx_AlwaysSmtp(valid, smtp) == IF ~valid THEN "returned" ELSE "smtp_resolve"

\* where validate_email goes after each stage
AfterSyntax(valid) == IF valid THEN "domain" ELSE "returned"
AfterDomain(valid) == IF valid THEN "mx" ELSE "returned"
AfterMx(valid, smtp) ==
  IF ~valid THEN "returned" ELSE IF smtp THEN "smtp_resolve" ELSE "returned"

\* the domain every later stage derives from its argument
DomainOf(e) == rsplit_at(e.chars)[2]

(* ------------------------- the DNS collaborator ------------------------ *)
DnsOutcomes == {"ok", "NoAnswer", "NXDOMAIN", "NoNameservers", "Timeout", "Other"}

Lookup(rdtype, domain, outcome) ==
  [rdtype |-> rdtype, domain |-> domain, outcome |-> outcome]

MxHosts == [i \in 1..MaxMx |-> <<"mx", i>>]

Answer(hosts) == [kind |-> "answer", hosts |-> hosts]
DnsError(kind) == [kind |-> kind, hosts |-> <<>>]

MxOutcomes ==
  {Answer(SubSeq(MxHosts, 1, n)) : n \in 0..MaxMx}
    \cup {DnsError(k) : k \in {"NoAnswer", "NXDOMAIN", "Other"}}

(* --------------------------- validate_domain --------------------------- *)
\* the lookups validate_domain issues, given what the resolver answers
DomainLookups(domain, aOut, aaaaOut) ==
  IF aOut = "NoAnswer"
    THEN <<Lookup("A", domain, aOut), Lookup("AAAA", domain, aaaaOut)>>
    ELSE <<Lookup("A", domain, aOut)>>

\* validate_domain whose AAAA fallback lets the resolver's error reach the
\* outer handlers instead of catching it
validate_domain_FallbackPropagates(aOut, aaaaOut) ==
  LET seen == IF aOut = "NoAnswer" THEN aaaaOut ELSE aOut
  IN IF seen = "ok"
       THEN Result(TRUE, Plain(IF aOut = "ok" THEN "Domain exists"
                                              ELSE "Domain exists (IPv6)"))
     ELSE IF seen = "NXDOMAIN" THEN Result(FALSE, Plain("Domain does not exist"))
     ELSE IF seen = "NoNameservers"
       THEN Result(FALSE, Plain("No nameservers found for domain"))
     ELSE IF seen = "Timeout" THEN Result(FALSE, Plain("DNS query timed out"))
     ELSE Result(FALSE, Msg("DNS error", 0, <<"detail">>))

validate_domain(aOut, aaaaOut) ==
  IF aOut = "ok" THEN Result(TRUE, Plain("Domain exists"))
  ELSE IF aOut = "NoAnswer"
    THEN IF aaaaOut = "ok"
           THEN Result(TRUE, Plain("Domain exists (IPv6)"))
           ELSE Result(FALSE, Plain("Domain has no A or AAAA records"))
  ELSE IF aOut = "NXDOMAIN" THEN Result(FALSE, Plain("Domain does not exist"))
  ELSE IF aOut = "NoNameservers"
    THEN Result(FALSE, Plain("No nameservers found for domain"))
  ELSE IF aOut = "Timeout" THEN Result(FALSE, Plain("DNS query timed out"))
  ELSE Result(FALSE, Msg("DNS error", 0, <<"detail">>))

(* ------------------------- validate_mx_records ------------------------- *)
FirstN(s, n) == SubSeq(s, 1, IF Len(s) < n THEN Len(s) ELSE n)

validate_mx_records(out) ==
  IF out.kind = "answer"
    THEN IF out.hosts # <<>>
           THEN Result(TRUE, Msg("MX records found", 0, FirstN(out.hosts, MxShown)))
           ELSE Result(FALSE, Plain("No MX records found"))
  ELSE IF out.kind = "NoAnswer" THEN Result(FALSE, Plain("No MX records for domain"))
  ELSE IF out.kind = "NXDOMAIN" THEN Result(FALSE, Plain("Domain does not exist"))
  ELSE Result(FALSE, Msg("MX lookup error", 0, <<"detail">>))

(* ------------------------- the SMTP collaborator ----------------------- *)
\* what a call on the smtplib client does: it returns a reply (a code and a
\* message that may or may not decode), or raises. smtplib closes the socket
\* before it raises SMTPServerDisconnected or SMTPResponseException; any
\* other exception leaves the socket as it was.
Reply(code, decodable) == [kind |-> "reply", code |-> code, decodable |-> decodable]
Raise(kind, decodable) == [kind |-> kind, code |-> 0, decodable |-> decodable]

Raises ==
  { Raise("SMTPServerDisconnected", TRUE),
    Raise("SMTPResponseException", TRUE),
    Raise("SMTPResponseException", FALSE),
    Raise("Exception", TRUE) }

ConnectOutcomes == {Reply(220, TRUE)} \cup Raises
HeloOutcomes == {Reply(c, TRUE) : c \in {250, 550}} \cup Raises
MailOutcomes == {Reply(c, TRUE) : c \in {250, 550}} \cup Raises
RcptOutcomes ==
  {Reply(c, d) : c \in {RcptOk, RcptForward, 252, 550}, d \in BOOLEAN} \cup Raises
QuitOutcomes == {Reply(221, TRUE)} \cup Raises

Sent(cmd, arg, out) == [cmd |-> cmd, arg |-> arg, out |-> out]

\* the socket after connect(): refused or timed out (OSError) leaves none
ConnAfterConnect(out) ==
  IF out.kind = "reply" THEN "open"
  ELSE IF out.kind = "Exception" THEN "none"
  ELSE "closed"

\* the socket after helo(), mail() or rcpt()
ConnAfterCommand(cur, out) ==
  IF out.kind \in {"SMTPServerDisconnected", "SMTPResponseException"}
    THEN "closed" ELSE cur

\* the socket after quit(): closed once the reply was read
ConnAfterQuit(cur, out) ==
  IF out.kind = "reply" THEN "closed" ELSE ConnAfterCommand(cur, out)

(* ---------------------------- validate_smtp ---------------------------- *)
\* the except clauses of validate_smtp; e.smtp_error.decode() runs inside the
\* handler, so a failure there leaves validate_smtp as an exception
HandlerEscapes(out) == out.kind = "SMTPResponseException" /\ ~out.decodable

HandlerResult(out) ==
  IF out.kind = "SMTPServerDisconnected"
    THEN Result(FALSE, Plain("SMTP server disconnected"))
  ELSE IF out.kind = "SMTPResponseException"
    THEN Result(FALSE, Msg("SMTP error", 500, <<"smtp_error">>))
  ELSE Result(FALSE, Msg("SMTP verification unavailable", 0, <<"detail">>))

\* the verdict on the RCPT reply; message.decode() is inside the try block
InterpretRcpt(code, decodable) ==
  IF code = RcptOk \/ code = RcptForward
    THEN Result(TRUE, Msg("SMTP verification passed", code, <<>>))
  ELSE IF decodable
    THEN Result(FALSE, Msg("SMTP verification failed", code, <<"message">>))
  ELSE Result(FALSE, Msg("SMTP verification unavailable", 0, <<"detail">>))

\* validate_email once validate_smtp returned r
SmtpReturns(r) ==
  /\ results' = Record(results, "smtp", r)
  /\ pc' = "returned"

\* validate_smtp raised out: its handler returns a result or fails itself
SmtpRaised(out) ==
  IF HandlerEscapes(out)
    THEN pc' = "raised" /\ UNCHANGED results
    ELSE SmtpReturns(HandlerResult(out))

(* ------------------------------ the run -------------------------------- *)
Init ==
  /\ email \in Inputs
  /\ check_smtp \in BOOLEAN
  /\ pc = "syntax"
  /\ results = [email |-> email, is_valid |-> TRUE, checks |-> <<>>]
  /\ dnsLog = <<>>
  /\ smtpLog = <<>>
  /\ conn = "none"
  /\ probeMx = [done |-> FALSE, hosts |-> <<>>]

SyntaxStage ==
  /\ pc = "syntax"
  /\ LET r == validate_syntax(email)
     IN /\ results' = Record(results, "syntax", r)
        /\ pc' = AfterSyntax(r.valid)
  /\ UNCHANGED <<email, check_smtp, dnsLog, smtpLog, conn, probeMx>>

DomainStage ==
  /\ pc = "domain"
  /\ \E aOut \in DnsOutcomes, aaaaOut \in DnsOutcomes :
       LET r == validate_domain(aOut, aaaaOut)
       IN /\ dnsLog' = dnsLog \o DomainLookups(DomainOf(email), aOut, aaaaOut)
          /\ results' = Record(results, "domain", r)
          /\ pc' = AfterDomain(r.valid)
  /\ UNCHANGED <<email, check_smtp, smtpLog, conn, probeMx>>

MxStage ==
  /\ pc = "mx"
  /\ \E out \in MxOutcomes :
       LET r == validate_mx_records(out)
       IN /\ dnsLog' = Append(dnsLog, Lookup("MX", DomainOf(email), out.kind))
          /\ results' = Record(results, "mx_records", r)
          /\ pc' = AfterMx(r.valid, check_smtp)
  /\ UNCHANGED <<email, check_smtp, smtpLog, conn, probeMx>>

\* validate_smtp's own MX lookup; mx_records[0] of an empty answer raises
SmtpResolve ==
  /\ pc = "smtp_resolve"
  /\ \E out \in MxOutcomes :
       /\ dnsLog' = Append(dnsLog, Lookup("MX", DomainOf(email), out.kind))
       /\ probeMx' = [done |-> TRUE, hosts |-> out.hosts]
       /\ IF out.kind = "answer" /\ out.hosts # <<>>
            THEN pc' = "smtp_connect" /\ UNCHANGED results
            ELSE SmtpRaised(Raise("Exception", TRUE))
  /\ UNCHANGED <<email, check_smtp, smtpLog, conn>>

SmtpConnect ==
  /\ pc = "smtp_connect"
  /\ \E out \in ConnectOutcomes :
       /\ smtpLog' = Append(smtpLog, Sent("connect", probeMx.hosts[1], out))
       /\ conn' = ConnAfterConnect(out)
       /\ IF out.kind = "reply"
            THEN pc' = "smtp_helo" /\ UNCHANGED results
            ELSE SmtpRaised(out)
  /\ UNCHANGED <<email, check_smtp, dnsLog, probeMx>>

SmtpCommand(here, cmd, arg, outcomes, next) ==
  /\ pc = here
  /\ \E out \in outcomes :
       /\ smtpLog' = Append(smtpLog, Sent(cmd, arg, out))
       /\ conn' = ConnAfterCommand(conn, out)
       /\ IF out.kind = "reply"
            THEN pc' = next /\ UNCHANGED results
            ELSE SmtpRaised(out)
  /\ UNCHANGED <<email, check_smtp, dnsLog, probeMx>>

SmtpHelo ==
  SmtpCommand("smtp_helo", "helo", <<"local_hostname">>, HeloOutcomes, "smtp_mail")

SmtpMail ==
  SmtpCommand("smtp_mail", "mail", <<"test@example.com">>, MailOutcomes, "smtp_rcpt")

\* server.rcpt(email) is given the untrimmed argument; smtplib's quoteaddr
\* drops the surrounding whitespace before the address goes on the wire
quoteaddr(s) == strip(s)

SmtpRcpt ==
  SmtpCommand("smtp_rcpt", "rcpt", quoteaddr(email.chars), RcptOutcomes, "smtp_quit")

\* server.quit(), then the verdict on the RCPT reply read before it
SmtpQuit ==
  /\ pc = "smtp_quit"
  /\ \E out \in QuitOutcomes :
       LET rcpt == smtpLog[Len(smtpLog)].out
       IN /\ smtpLog' = Append(smtpLog, Sent("quit", <<>>, out))
          /\ conn' = ConnAfterQuit(conn, out)
          /\ IF out.kind = "reply"
               THEN SmtpReturns(InterpretRcpt(rcpt.code, rcpt.decodable))
               ELSE SmtpRaised(out)
  /\ UNCHANGED <<email, check_smtp, dnsLog, probeMx>>

Next ==
  \/ SyntaxStage
  \/ DomainStage
  \/ MxStage
  \/ SmtpResolve
  \/ SmtpConnect
  \/ SmtpHelo
  \/ SmtpMail
  \/ SmtpRcpt
  \/ SmtpQuit

Spec == Init /\ [][Next]_vars

(* ============================== claims ================================= *)
Finished == pc \in {"returned", "raised"}
checks == results.checks
NChecks == Len(checks)
StageOrder == <<"syntax", "domain", "mx_records", "smtp">>
HasCheck(name) == \E i \in 1..NChecks : checks[i].name = name
CheckOf(name) == checks[CHOOSE i \in 1..NChecks : checks[i].name = name]
SentCmds(cmd) == {i \in 1..Len(smtpLog) : smtpLog[i].cmd = cmd}
Asked(rdtype) == {i \in 1..Len(dnsLog) : dnsLog[i].rdtype = rdtype}
Stripped == strip(email.chars)

\* C1: once validate_email has finished, no connection it opened is still
\* open, whichever way validate_smtp was left.
C1_NoConnectionOutlivesCall == Finished => conn # "open"

\* C2: no exception escapes validate_email: the call always ends by returning
\* a report with a non-empty 'checks', whose only failing check (if any) has
\* valid = false and a message.
C2_NoExceptionEscapes ==
  /\ pc # "raised"
  /\ pc = "returned" =>
       /\ results.email = email
       /\ NChecks >= 1
       /\ ~results.is_valid =>
            \E i \in 1..NChecks : ~checks[i].valid /\ checks[i].message.text # ""

\* the address (after trimming) is one of the invalid kinds C3 lists
AtPositions(s) == {k \in 1..Len(s) : s[k] = "@"}
LocalPartOf(s) == SubSeq(s, 1, MaxOf(AtPositions(s)) - 1)
DomainPartOf(s) == SubSeq(s, MaxOf(AtPositions(s)) + 1, Len(s))
DotPositions(s) == {k \in 1..Len(s) : s[k] = "."}
MissingTld(d) == DotPositions(d) = {} \/ MaxOf(DotPositions(d)) = Len(d)
ListedInvalid(e) ==
  \/ e.kind # "str"
  \/ e.chars = <<>>
  \/ AtPositions(strip(e.chars)) = {}
  \/ LET s == strip(e.chars)
         l == LocalPartOf(s)
         d == DomainPartOf(s)
     IN \/ MissingTld(d)
        \/ \E k \in 1..(Len(s) - 1) : SubSeq(s, k, k + 1) = <<".", ".">>
        \/ (l # <<>> /\ (Head(l) = "." \/ l[Len(l)] = "."))
        \/ Len(l) > MaxLocalLen
        \/ Len(d) > MaxDomainLen

\* C3: for a syntactically invalid input the call makes no DNS lookup and no
\* SMTP connection, and returns is_valid = false with the single check
\* 'syntax', which is false.
C3_InvalidSyntaxStopsAtSyntax ==
  ListedInvalid(email) =>
    /\ dnsLog = <<>>
    /\ smtpLog = <<>>
    /\ conn = "none"
    /\ pc \in {"syntax", "returned"}
    /\ pc = "returned" =>
         /\ ~results.is_valid
         /\ NChecks = 1
         /\ checks[1].name = "syntax"
         /\ ~checks[1].valid

C3_Witness ==
  /\ pc = "returned"
  /\ ListedInvalid(email)
  /\ email.kind = "str"
  /\ Len(email.chars) > Len(Stripped)
  /\ checks[1].message.text = "Domain part is too long (max 255 chars)"

\* C4: the checks of a returned report are, in order, a non-empty prefix of
\* syntax, domain, mx_records, smtp, and every check but the last is valid.
C4_ChecksArePrefixAndStopAtFailure ==
  pc = "returned" =>
    /\ NChecks \in 1..Len(StageOrder)
    /\ \A i \in 1..NChecks : checks[i].name = StageOrder[i]
    /\ \A i \in 1..(NChecks - 1) : checks[i].valid

C4_Witness ==
  /\ pc = "returned"
  /\ check_smtp
  /\ NChecks = 2
  /\ checks[1].valid
  /\ ~checks[2].valid

\* C5: in a returned report is_valid is the conjunction of the valid flags of
\* all recorded checks.
C5_IsValidIsConjunction ==
  pc = "returned" => (results.is_valid <=> \A i \in 1..NChecks : checks[i].valid)

C5_Witness ==
  /\ pc = "returned"
  /\ NChecks = 4
  /\ ~checks[4].valid
  /\ ~results.is_valid

\* C6: a connection is attempted only with check_smtp set, after syntax,
\* domain and mx_records all passed and the probe's own MX lookup returned a
\* host; otherwise none is attempted and no smtp success is reported.
C6_ConnectOnlyWhenAskedAndMxFound ==
  /\ (smtpLog # <<>> \/ conn # "none") =>
       /\ check_smtp
       /\ NChecks >= 3
       /\ \A i \in 1..3 : checks[i].name = StageOrder[i] /\ checks[i].valid
       /\ probeMx.done
       /\ probeMx.hosts # <<>>
  /\ (HasCheck("smtp") /\ CheckOf("smtp").valid) =>
       /\ check_smtp
       /\ probeMx.done
       /\ probeMx.hosts # <<>>
       /\ SentCmds("connect") # {}

C6_Witness ==
  /\ conn = "open"
  /\ SentCmds("connect") # {}
  /\ pc = "smtp_helo"

\* C7: once RCPT TO got a numeric reply, the result is valid exactly when the
\* code is 250 or 251, and carries the code (and, on failure, the server's
\* message).
C7_RcptCodeDecidesResult ==
  (pc = "returned" /\ \E i \in SentCmds("rcpt") : smtpLog[i].out.kind = "reply") =>
    LET reply == smtpLog[CHOOSE i \in SentCmds("rcpt") : TRUE].out
        c == CheckOf("smtp")
    IN /\ c.valid <=> reply.code \in {RcptOk, RcptForward}
       /\ c.message.code = reply.code
       /\ ~c.valid => c.message.text = "SMTP verification failed"

\* C8: validate_smtp reports valid = true only if HELO and MAIL FROM were
\* both accepted (2xx) by the server.
C8_SuccessNeedsHeloAndMailAccepted ==
  (HasCheck("smtp") /\ CheckOf("smtp").valid) =>
    \A i \in SentCmds("helo") \cup SentCmds("mail") :
      smtpLog[i].out.code \in 200..299

\* C9: the domain stage asks for A at most once and for AAAA at most once and
\* only after A reported no-answer; it is valid exactly when A succeeded or A
\* reported no-answer and AAAA succeeded; NXDOMAIN, NoNameservers and Timeout
\* on A have their own messages, a failed fallback its own.
C9_DomainStage ==
  /\ Cardinality(Asked("A")) <= 1
  /\ Cardinality(Asked("AAAA")) <= 1
  /\ \A q \in Asked("AAAA") :
       \E a \in Asked("A") : a < q /\ dnsLog[a].outcome = "NoAnswer"
  /\ HasCheck("domain") =>
       /\ Asked("A") # {}
       /\ LET aOut == dnsLog[CHOOSE a \in Asked("A") : TRUE].outcome
              fell == Asked("AAAA") # {}
              aaaaOut == dnsLog[CHOOSE q \in Asked("AAAA") : TRUE].outcome
              c == CheckOf("domain")
          IN /\ c.valid <=> (aOut = "ok" \/ (aOut = "NoAnswer" /\ fell /\ aaaaOut = "ok"))
             /\ aOut = "NXDOMAIN" => c.message.text = "Domain does not exist"
             /\ aOut = "NoNameservers" =>
                  c.message.text = "No nameservers found for domain"
             /\ aOut = "Timeout" => c.message.text = "DNS query timed out"
             /\ (aOut = "NoAnswer" /\ aaaaOut # "ok") =>
                  c.message.text = "Domain has no A or AAAA records"

C9_Witness ==
  /\ HasCheck("domain")
  /\ Asked("AAAA") # {}
  /\ \E q \in Asked("AAAA") : dnsLog[q].outcome = "NXDOMAIN"
  /\ ~CheckOf("domain").valid

\* C10: the domain the later stages look up and the recipient of RCPT TO are
\* those of the trimmed address the syntax stage accepted.
C10_LaterStagesUseTrimmedAddress ==
  /\ \A i \in 1..Len(dnsLog) : dnsLog[i].domain = DomainPartOf(Stripped)
  /\ \A i \in SentCmds("rcpt") : smtpLog[i].arg = Stripped

====
